---- MODULE Spec2Model ----
(***************************************************************************)
(* Minesweeper engine of hjq1234/small-game: Cell, Board and GameSession   *)
(* (src/src/game/cell.py, board.py, game_state.py, validator.py,            *)
(* difficulty.py).                                                         *)
(*                                                                         *)
(* A position is the pair <<row, col>>.  A raised ValueError is recorded   *)
(* in the result record rather than as a value of the returned type.       *)
(***************************************************************************)
EXTENDS Integers, Sequences, FiniteSets, TLC

VARIABLES
    difficulty,   \* GameSession.difficulty : DifficultyLevel(width, height, mines)
    board,        \* GameSession.board      : Board
    state,        \* GameSession.state      : GameState value
    start_time,   \* GameSession.start_time : <<>> is None, <<t>> is the datetime t
    end_time,     \* GameSession.end_time   : <<>> is None, <<t>> is the datetime t
    moves_count,  \* GameSession.moves_count
    flags_used,   \* GameSession.flags_used
    clock         \* the value the next datetime.now() returns

vars == <<difficulty, board, state, start_time, end_time, moves_count,
          flags_used, clock>>

sessionVars == <<difficulty, state, start_time, end_time, moves_count,
                 flags_used, clock>>

----------------------------------------------------------------------------
(* Bounds of the model *)

\* flag moves a session accepts before the model stops offering more
MaxFlagsUsed == 2
\* datetime.now() calls (game starts and game ends) the model follows
MaxClock == 2
\* flags standing on the board at once when the board is driven directly
MaxFlagged == 2

\* The difficulties explored.  Board.__init__ and GameSession.__init__ take
\* any dimensions (the unit tests build Board(3, 3, 1) and Board(3, 3, 2)).
Difficulties ==
    { [name |-> "Test", width |-> 3, height |-> 3, mines |-> 1],
      [name |-> "Test", width |-> 3, height |-> 2, mines |-> 2] }

Actions == {"reveal", "flag", "other"}

----------------------------------------------------------------------------
(* validator.py *)

\* validate_board_settings that rejects a density of exactly 25%
validate_board_settings_density_strict(width, height, mine_count) ==
    IF width < 9 \/ width > 30
    THEN [exc |-> "ValueError", message |-> "Width must be between 9 and 30"]
    ELSE IF height < 9 \/ height > 30
    THEN [exc |-> "ValueError", message |-> "Height must be between 9 and 30"]
    ELSE IF mine_count < 1
    THEN [exc |-> "ValueError", message |-> "Mine count must be at least 1"]
    ELSE IF mine_count >= width * height
    THEN [exc |-> "ValueError",
          message |-> "Mine count must be less than total cells"]
    ELSE IF 4 * mine_count >= width * height
    THEN [exc |-> "ValueError", message |-> "Mine density too high"]
    ELSE [exc |-> "None", message |-> ""]

\* [exc, message] for integer arguments (the isinstance tests pass).  The float
\* test mine_count / total_cells > 0.25 is the exact test 4 * mine_count >
\* total_cells: 0.25 is a float, and a quotient above 1/4 is above it by
\* 1 / (4 * total_cells) or more, far more than the rounding of the division.
validate_board_settings(width, height, mine_count) ==
    IF width < 9 \/ width > 30
    THEN [exc |-> "ValueError", message |-> "Width must be between 9 and 30"]
    ELSE IF height < 9 \/ height > 30
    THEN [exc |-> "ValueError", message |-> "Height must be between 9 and 30"]
    ELSE LET total_cells == width * height
         IN IF mine_count < 1
            THEN [exc |-> "ValueError",
                  message |-> "Mine count must be at least 1"]
            ELSE IF mine_count >= total_cells
            THEN [exc |-> "ValueError",
                  message |-> "Mine count must be less than total cells"]
            ELSE IF 4 * mine_count > total_cells
            THEN [exc |-> "ValueError", message |-> "Mine density too high"]
            ELSE [exc |-> "None", message |-> ""]

\* TRUE when the position is accepted, FALSE when ValueError is raised
validate_position(row, col, width, height) ==
    /\ ~(row < 0 \/ row >= height)
    /\ ~(col < 0 \/ col >= width)

\* the (dr, dc) pairs in the order of the two nested loops, (0, 0) skipped
Directions ==
    << <<-1, -1>>, <<-1, 0>>, <<-1, 1>>,
       <<0, -1>>,             <<0, 1>>,
       <<1, -1>>,  <<1, 0>>,  <<1, 1>> >>

RECURSIVE adjacent_from(_, _, _, _, _)
adjacent_from(i, row, col, width, height) ==
    IF i > Len(Directions) THEN <<>>
    ELSE LET new_row == row + Directions[i][1]
             new_col == col + Directions[i][2]
             rest == adjacent_from(i + 1, row, col, width, height)
         IN IF 0 <= new_row /\ new_row < height /\ 0 <= new_col /\ new_col < width
            THEN <<<<new_row, new_col>>>> \o rest
            ELSE rest

\* list of the in-bounds neighbours, in the order the code appends them
get_adjacent_positions(row, col, width, height) ==
    adjacent_from(1, row, col, width, height)

\* int(total_cells * 0.15): int() drops the fraction, and for every
\* total_cells up to 900 the floating-point product lies on the same side of
\* each integer as the exact 15 * total_cells / 100
suggest_reasonable_settings(width, height) ==
    LET total_cells == width * height
        truncated == (total_cells * 15) \div 100
        at_least_one == IF truncated < 1 THEN 1 ELSE truncated
    IN IF at_least_one < total_cells - 1 THEN at_least_one ELSE total_cells - 1

----------------------------------------------------------------------------
(* cell.py *)

Cell_init == [state |-> "Hidden", is_mine |-> FALSE, adjacent_mines |-> 0]

HiddenState_can_reveal == TRUE
RevealedState_can_reveal == FALSE
FlaggedState_can_reveal == FALSE
HiddenState_can_flag == TRUE
RevealedState_can_flag == FALSE
FlaggedState_can_flag == TRUE

\* can_reveal that refuses only a Revealed cell
can_reveal_unless_revealed(cell) ==
    cell.state # "Revealed"

can_reveal(cell) ==
    CASE cell.state = "Hidden" -> HiddenState_can_reveal
      [] cell.state = "Revealed" -> RevealedState_can_reveal
      [] cell.state = "Flagged" -> FlaggedState_can_reveal

can_flag(cell) ==
    CASE cell.state = "Hidden" -> HiddenState_can_flag
      [] cell.state = "Revealed" -> RevealedState_can_flag
      [] cell.state = "Flagged" -> FlaggedState_can_flag

\* CellState.reveal of each state class
State_reveal(s) ==
    CASE s = "Hidden" -> "Revealed"
      [] s = "Revealed" -> "Revealed"
      [] s = "Flagged" -> "Flagged"

\* CellState.flag of each state class
State_flag(s) ==
    CASE s = "Hidden" -> "Flagged"
      [] s = "Revealed" -> "Revealed"
      [] s = "Flagged" -> "Hidden"

\* Cell.reveal that also wipes the count of the cell it reveals
Cell_reveal_clears_count(cell) ==
    IF can_reveal(cell)
    THEN [cell EXCEPT !.state = State_reveal(@), !.adjacent_mines = 0]
    ELSE cell

Cell_reveal(cell) ==
    IF can_reveal(cell) THEN [cell EXCEPT !.state = State_reveal(@)] ELSE cell

Cell_flag(cell) ==
    IF can_flag(cell) THEN [cell EXCEPT !.state = State_flag(@)] ELSE cell

is_revealed(cell) == cell.state = "Revealed"
is_flagged(cell) == cell.state = "Flagged"
is_hidden(cell) == cell.state = "Hidden"

set_mine(cell) == [cell EXCEPT !.is_mine = TRUE]
set_adjacent_mines(cell, count) == [cell EXCEPT !.adjacent_mines = count]

----------------------------------------------------------------------------
(* board.py *)

Positions(width, height) == (0 .. height - 1) \X (0 .. width - 1)

Board_init(width, height, mine_count) ==
    [ width |-> width, height |-> height, mine_count |-> mine_count,
      cells |-> [p \in Positions(width, height) |-> Cell_init],
      revealed_count |-> 0, flagged_count |-> 0,
      first_click |-> TRUE, mine_positions |-> {} ]

\* all_positions without the test that skips the safe position
all_positions_with_safe(b, safe_row, safe_col) ==
    Positions(b.width, b.height)

\* all_positions of generate_mines: every position but the safe one
all_positions(b, safe_row, safe_col) ==
    {p \in Positions(b.width, b.height) : p # <<safe_row, safe_col>>}

\* the sets random.sample(population, k) can return (as a set)
random_sample(population, k) ==
    {M \in SUBSET population : Cardinality(M) = k}

\* _count_adjacent_mines that looks at the four edge neighbours only
_count_adjacent_mines_orthogonal(b, row, col) ==
    LET adjacent_positions == get_adjacent_positions(row, col, b.width, b.height)
    IN Cardinality({i \in DOMAIN adjacent_positions :
                        /\ b.cells[adjacent_positions[i]].is_mine
                        /\ (adjacent_positions[i][1] = row
                              \/ adjacent_positions[i][2] = col)})

_count_adjacent_mines(b, row, col) ==
    LET adjacent_positions == get_adjacent_positions(row, col, b.width, b.height)
    IN Cardinality({i \in DOMAIN adjacent_positions :
                        b.cells[adjacent_positions[i]].is_mine})

\* generate_mines that leaves every adjacent_mines at 0
_calculate_adjacent_mines_skipped(b) == b

_calculate_adjacent_mines(b) ==
    [b EXCEPT !.cells =
        [p \in DOMAIN b.cells |->
            IF ~b.cells[p].is_mine
            THEN set_adjacent_mines(b.cells[p], _count_adjacent_mines(b, p[1], p[2]))
            ELSE b.cells[p]]]

\* random.sample drawing from every position of the board
sample_choices_any_position(b, safe_row, safe_col) ==
    IF b.mine_positions # {} THEN {{}}
    ELSE random_sample(Positions(b.width, b.height), b.mine_count)

\* what random.sample can return in generate_mines; {} stands for "not called"
sample_choices(b, safe_row, safe_col) ==
    IF b.mine_positions # {} THEN {{}}
    ELSE random_sample(all_positions(b, safe_row, safe_col), b.mine_count)

\* generate_mines without the "already generated" guard
generate_mines_unguarded(b, safe_row, safe_col, sample) ==
    _calculate_adjacent_mines(
        [b EXCEPT !.mine_positions = sample,
                  !.cells = [p \in DOMAIN b.cells |->
                                IF p \in sample THEN set_mine(b.cells[p])
                                ELSE b.cells[p]]])

\* sample is the set random.sample returns if the call gets that far
generate_mines(b, safe_row, safe_col, sample) ==
    IF b.mine_positions # {} THEN b
    ELSE _calculate_adjacent_mines(
            [b EXCEPT !.mine_positions = sample,
                      !.cells = [p \in DOMAIN b.cells |->
                                    IF p \in sample THEN set_mine(b.cells[p])
                                    ELSE b.cells[p]]])

\* the flood fill's for loop revealing every neighbour that is not revealed,
\* flagged ones too
RECURSIVE _reveal_adjacent_for_over_flags(_, _, _, _)
_reveal_adjacent_for_over_flags(b, to_reveal, adjacent_positions, i) ==
    IF i > Len(adjacent_positions) THEN [board |-> b, to_reveal |-> to_reveal]
    ELSE LET p == adjacent_positions[i]
             adj_cell == b.cells[p]
         IN IF ~is_revealed(adj_cell)
            THEN _reveal_adjacent_for_over_flags(
                    [b EXCEPT !.cells[p] = [adj_cell EXCEPT !.state = "Revealed"],
                              !.revealed_count = @ + 1],
                    IF adj_cell.adjacent_mines = 0 /\ ~adj_cell.is_mine
                    THEN Append(to_reveal, p) ELSE to_reveal,
                    adjacent_positions, i + 1)
            ELSE _reveal_adjacent_for_over_flags(b, to_reveal, adjacent_positions,
                                                 i + 1)

\* the for loop over adjacent_positions inside the flood fill, from index i
RECURSIVE _reveal_adjacent_for(_, _, _, _)
_reveal_adjacent_for(b, to_reveal, adjacent_positions, i) ==
    IF i > Len(adjacent_positions) THEN [board |-> b, to_reveal |-> to_reveal]
    ELSE LET p == adjacent_positions[i]
             adj_cell == b.cells[p]
         IN IF is_hidden(adj_cell) /\ ~is_flagged(adj_cell)
            THEN _reveal_adjacent_for(
                    [b EXCEPT !.cells[p] = Cell_reveal(adj_cell),
                              !.revealed_count = @ + 1],
                    IF adj_cell.adjacent_mines = 0 /\ ~adj_cell.is_mine
                    THEN Append(to_reveal, p) ELSE to_reveal,
                    adjacent_positions, i + 1)
            ELSE _reveal_adjacent_for(b, to_reveal, adjacent_positions, i + 1)

\* the while loop of the flood fill: to_reveal is a stack, revealed the seen set
RECURSIVE _reveal_adjacent_while(_, _, _)
_reveal_adjacent_while(b, to_reveal, revealed) ==
    IF to_reveal = <<>> THEN b
    ELSE LET current == to_reveal[Len(to_reveal)]
             popped == SubSeq(to_reveal, 1, Len(to_reveal) - 1)
         IN IF current \in revealed
            THEN _reveal_adjacent_while(b, popped, revealed)
            ELSE LET r == _reveal_adjacent_for(b, popped,
                              get_adjacent_positions(current[1], current[2],
                                                     b.width, b.height), 1)
                 IN _reveal_adjacent_while(r.board, r.to_reveal,
                                           revealed \cup {current})

\* one pass of the while loop that pushes every zero-count neighbour, revealed
\* before or not, and keeps no seen set
_reveal_adjacent_iteration_repush(b, to_reveal, revealed, k, adjacent_order) ==
    LET current == to_reveal[k]
        popped == SubSeq(to_reveal, 1, k - 1)
                     \o SubSeq(to_reveal, k + 1, Len(to_reveal))
        r == _reveal_adjacent_for(b, popped, adjacent_order, 1)
        zeros == SelectSeq(adjacent_order,
                           LAMBDA p : /\ r.board.cells[p].adjacent_mines = 0
                                      /\ ~r.board.cells[p].is_mine
                                      /\ is_revealed(r.board.cells[p]))
    IN [board |-> r.board, to_reveal |-> popped \o zeros,
        revealed |-> revealed, expanded |-> TRUE]

\* a pass that removes the pending position by cutting the list at its index
_reveal_adjacent_iteration_truncating(b, to_reveal, revealed, k, adjacent_order) ==
    LET current == to_reveal[k]
        popped == SubSeq(to_reveal, 1, k - 1)
    IN IF current \in revealed
       THEN [board |-> b, to_reveal |-> popped, revealed |-> revealed,
             expanded |-> FALSE]
       ELSE LET r == _reveal_adjacent_for(b, popped, adjacent_order, 1)
            IN [board |-> r.board, to_reveal |-> r.to_reveal,
                revealed |-> revealed \cup {current}, expanded |-> TRUE]

\* One pass of the while loop of the flood fill, taking the pending position
\* at index k of to_reveal and visiting the neighbours of the position in
\* adjacent_order.  list.pop() takes k = Len(to_reveal), and the for loop
\* follows get_adjacent_positions.  expanded tells whether the pass got
\* beyond the seen-set test.
_reveal_adjacent_iteration(b, to_reveal, revealed, k, adjacent_order) ==
    LET current == to_reveal[k]
        popped == SubSeq(to_reveal, 1, k - 1)
                     \o SubSeq(to_reveal, k + 1, Len(to_reveal))
    IN IF current \in revealed
       THEN [board |-> b, to_reveal |-> popped, revealed |-> revealed,
             expanded |-> FALSE]
       ELSE LET r == _reveal_adjacent_for(b, popped, adjacent_order, 1)
            IN [board |-> r.board, to_reveal |-> r.to_reveal,
                revealed |-> revealed \cup {current}, expanded |-> TRUE]

\* The passes of the while loop in the order of the code, at most fuel of
\* them: the sequence of [current, before, after] of the passes made, and the
\* loop state they end in.
RECURSIVE _reveal_adjacent_passes(_, _, _, _, _)
_reveal_adjacent_passes(b, to_reveal, revealed, fuel, passes) ==
    IF to_reveal = <<>> \/ fuel = 0
    THEN [board |-> b, to_reveal |-> to_reveal, passes |-> passes]
    ELSE LET current == to_reveal[Len(to_reveal)]
             it == _reveal_adjacent_iteration(
                      b, to_reveal, revealed, Len(to_reveal),
                      get_adjacent_positions(current[1], current[2],
                                             b.width, b.height))
         IN _reveal_adjacent_passes(
               it.board, it.to_reveal, it.revealed, fuel - 1,
               Append(passes, [current |-> current, expanded |-> it.expanded,
                               before |-> b, after |-> it.board]))

\* a flood fill that reveals the neighbours of the start cell and stops there
_reveal_adjacent_first_ring(b, row, col) ==
    _reveal_adjacent_for(b, <<>>,
                         get_adjacent_positions(row, col, b.width, b.height),
                         1).board

_reveal_adjacent_empty_cells(b, row, col) ==
    _reveal_adjacent_while(b, <<<<row, col>>>>, {})

\* what random.sample can return in reveal_cell: it is called only on the
\* first click, once the position is validated and the cell can be revealed
reveal_sample_choices(b, row, col) ==
    IF validate_position(row, col, b.width, b.height)
          /\ can_reveal(b.cells[<<row, col>>]) /\ b.first_click
    THEN sample_choices(b, row, col)
    ELSE {{}}

\* reveal_cell that handles the first click before it looks at the cell
reveal_cell_first_click_first(b, row, col, sample) ==
    IF ~validate_position(row, col, b.width, b.height)
    THEN [board |-> b, exc |-> "ValueError", value |-> FALSE]
    ELSE LET b1 == IF b.first_click
                   THEN [generate_mines(b, row, col, sample)
                            EXCEPT !.first_click = FALSE]
                   ELSE b
             cell1 == b1.cells[<<row, col>>]
         IN IF ~can_reveal(cell1)
            THEN [board |-> b1, exc |-> "None", value |-> FALSE]
            ELSE LET b2 == [b1 EXCEPT !.cells[<<row, col>>] = Cell_reveal(cell1),
                                      !.revealed_count = @ + 1]
                     b3 == IF cell1.adjacent_mines = 0 /\ ~cell1.is_mine
                           THEN _reveal_adjacent_empty_cells(b2, row, col)
                           ELSE b2
                 IN [board |-> b3, exc |-> "None", value |-> TRUE]

\* [board, exc, value]: the board after the call, whether it raised, its result
\* reveal_cell that never clears first_click
reveal_cell_keeps_first_click(b, row, col, sample) ==
    IF ~validate_position(row, col, b.width, b.height)
    THEN [board |-> b, exc |-> "ValueError", value |-> FALSE]
    ELSE LET cell == b.cells[<<row, col>>]
         IN IF ~can_reveal(cell)
            THEN [board |-> b, exc |-> "None", value |-> FALSE]
            ELSE LET b1 == IF b.first_click
                           THEN generate_mines(b, row, col, sample)
                           ELSE b
                     cell1 == b1.cells[<<row, col>>]
                     b2 == [b1 EXCEPT !.cells[<<row, col>>] = Cell_reveal(cell1),
                                      !.revealed_count = @ + 1]
                     b3 == IF cell1.adjacent_mines = 0 /\ ~cell1.is_mine
                           THEN _reveal_adjacent_empty_cells(b2, row, col)
                           ELSE b2
                 IN [board |-> b3, exc |-> "None", value |-> TRUE]

reveal_cell(b, row, col, sample) ==
    IF ~validate_position(row, col, b.width, b.height)
    THEN [board |-> b, exc |-> "ValueError", value |-> FALSE]
    ELSE LET cell == b.cells[<<row, col>>]
         IN IF ~can_reveal(cell)
            THEN [board |-> b, exc |-> "None", value |-> FALSE]
            ELSE LET b1 == IF b.first_click
                           THEN [generate_mines(b, row, col, sample)
                                    EXCEPT !.first_click = FALSE]
                           ELSE b
                     cell1 == b1.cells[<<row, col>>]
                     b2 == [b1 EXCEPT !.cells[<<row, col>>] = Cell_reveal(cell1),
                                      !.revealed_count = @ + 1]
                     b3 == IF cell1.adjacent_mines = 0 /\ ~cell1.is_mine
                           THEN _reveal_adjacent_empty_cells(b2, row, col)
                           ELSE b2
                 IN [board |-> b3, exc |-> "None", value |-> TRUE]

\* flag_cell with the flagged_count update of the unflag branch left out
flag_cell_unflag_uncounted(b, row, col) ==
    IF ~validate_position(row, col, b.width, b.height)
    THEN [board |-> b, exc |-> "ValueError", value |-> FALSE]
    ELSE LET cell == b.cells[<<row, col>>]
         IN IF ~can_flag(cell)
            THEN [board |-> b, exc |-> "None", value |-> FALSE]
            ELSE LET cell1 == Cell_flag(cell)
                     delta == IF ~is_flagged(cell) /\ is_flagged(cell1) THEN 1 ELSE 0
                 IN [board |-> [b EXCEPT !.cells[<<row, col>>] = cell1,
                                         !.flagged_count = @ + delta],
                     exc |-> "None", value |-> TRUE]

\* flag_cell that moves a position off the grid to the nearest cell
flag_cell_clamped(b, row, col) ==
    LET r == IF row < 0 THEN 0 ELSE IF row >= b.height THEN b.height - 1 ELSE row
        c == IF col < 0 THEN 0 ELSE IF col >= b.width THEN b.width - 1 ELSE col
        cell == b.cells[<<r, c>>]
    IN IF ~can_flag(cell)
       THEN [board |-> b, exc |-> "None", value |-> FALSE]
       ELSE LET cell1 == Cell_flag(cell)
                delta == IF is_flagged(cell1) THEN 1 ELSE -1
            IN [board |-> [b EXCEPT !.cells[<<r, c>>] = cell1,
                                    !.flagged_count = @ + delta],
                exc |-> "None", value |-> TRUE]

flag_cell(b, row, col) ==
    IF ~validate_position(row, col, b.width, b.height)
    THEN [board |-> b, exc |-> "ValueError", value |-> FALSE]
    ELSE LET cell == b.cells[<<row, col>>]
         IN IF ~can_flag(cell)
            THEN [board |-> b, exc |-> "None", value |-> FALSE]
            ELSE LET was_flagged == is_flagged(cell)
                     cell1 == Cell_flag(cell)
                     delta == IF was_flagged /\ ~is_flagged(cell1) THEN -1
                              ELSE IF ~was_flagged /\ is_flagged(cell1) THEN 1
                              ELSE 0
                 IN [board |-> [b EXCEPT !.cells[<<row, col>>] = cell1,
                                         !.flagged_count = @ + delta],
                     exc |-> "None", value |-> TRUE]

\* flag_count and hidden_adjacent as the counting loop of expand leaves them
count_adjacent_flags(b, adjacent_positions) ==
    Cardinality({i \in DOMAIN adjacent_positions :
                    is_flagged(b.cells[adjacent_positions[i]])})

hidden_adjacent_of(b, adjacent_positions) ==
    SelectSeq(adjacent_positions,
              LAMBDA p : ~is_flagged(b.cells[p]) /\ is_hidden(b.cells[p]))

\* The reveal_cell calls of expand_adjacent_cells never reach random.sample:
\* the target cell is revealed, so an earlier reveal_cell cleared first_click
\* (FirstClickMeansNothingRevealed below).
NoSample == {}

\* the loop over hidden_adjacent left after its first reveal_cell call
expand_reveal_first_only(b, hidden_adjacent, i, revealed) ==
    IF i > Len(hidden_adjacent) THEN [board |-> b, revealed |-> revealed]
    ELSE LET p == hidden_adjacent[i]
             r == reveal_cell(b, p[1], p[2], NoSample)
         IN [board |-> r.board,
             revealed |-> IF r.value THEN revealed \cup {p} ELSE revealed]

\* the loop "for adj in hidden_adjacent: if self.reveal_cell(adj): revealed.add(adj)"
RECURSIVE expand_reveal_for(_, _, _, _)
expand_reveal_for(b, hidden_adjacent, i, revealed) ==
    IF i > Len(hidden_adjacent) THEN [board |-> b, revealed |-> revealed]
    ELSE LET p == hidden_adjacent[i]
             r == reveal_cell(b, p[1], p[2], NoSample)
         IN expand_reveal_for(r.board, hidden_adjacent, i + 1,
                              IF r.value THEN revealed \cup {p} ELSE revealed)

\* expand_adjacent_cells whose gate lets a surplus of flags through
expand_adjacent_cells_surplus_flags(b, row, col) ==
    IF ~validate_position(row, col, b.width, b.height)
    THEN [board |-> b, exc |-> "ValueError", value |-> {}]
    ELSE LET cell == b.cells[<<row, col>>]
         IN IF ~is_revealed(cell) \/ cell.adjacent_mines = 0
            THEN [board |-> b, exc |-> "None", value |-> {}]
            ELSE LET adjacent_positions ==
                         get_adjacent_positions(row, col, b.width, b.height)
                     flag_count == count_adjacent_flags(b, adjacent_positions)
                     hidden_adjacent == hidden_adjacent_of(b, adjacent_positions)
                 IN IF flag_count < cell.adjacent_mines
                    THEN [board |-> b, exc |-> "None", value |-> {}]
                    ELSE LET r == expand_reveal_for(b, hidden_adjacent, 1, {})
                         IN [board |-> r.board, exc |-> "None",
                             value |-> r.revealed]

expand_adjacent_cells(b, row, col) ==
    IF ~validate_position(row, col, b.width, b.height)
    THEN [board |-> b, exc |-> "ValueError", value |-> {}]
    ELSE LET cell == b.cells[<<row, col>>]
         IN IF ~is_revealed(cell) \/ cell.adjacent_mines = 0
            THEN [board |-> b, exc |-> "None", value |-> {}]
            ELSE LET adjacent_positions ==
                         get_adjacent_positions(row, col, b.width, b.height)
                     flag_count == count_adjacent_flags(b, adjacent_positions)
                     hidden_adjacent == hidden_adjacent_of(b, adjacent_positions)
                 IN IF flag_count # cell.adjacent_mines
                    THEN [board |-> b, exc |-> "None", value |-> {}]
                    ELSE LET r == expand_reveal_for(b, hidden_adjacent, 1, {})
                         IN [board |-> r.board, exc |-> "None",
                             value |-> r.revealed]

\* [exc, value]: value is the cell, present only when the call returns
get_cell(b, row, col) ==
    IF ~validate_position(row, col, b.width, b.height)
    THEN [exc |-> "ValueError"]
    ELSE [exc |-> "None", value |-> b.cells[<<row, col>>]]

check_win_condition(b) ==
    LET total_non_mine_cells == (b.width * b.height) - b.mine_count
    IN b.revealed_count = total_non_mine_cells

check_lose_condition(b) ==
    \E p \in b.mine_positions : is_revealed(b.cells[p])

----------------------------------------------------------------------------
(* difficulty.py.  A string that str.lower() is applied to is the sequence of
   its characters. *)

UpperCase ==
    << "A", "B", "C", "D", "E", "F", "G", "H", "I", "J", "K", "L", "M",
       "N", "O", "P", "Q", "R", "S", "T", "U", "V", "W", "X", "Y", "Z" >>

LowerCase ==
    << "a", "b", "c", "d", "e", "f", "g", "h", "i", "j", "k", "l", "m",
       "n", "o", "p", "q", "r", "s", "t", "u", "v", "w", "x", "y", "z" >>

\* str.lower() on ASCII text
lower(name) ==
    [i \in DOMAIN name |->
        IF \E k \in DOMAIN UpperCase : UpperCase[k] = name[i]
        THEN LowerCase[CHOOSE k \in DOMAIN UpperCase : UpperCase[k] = name[i]]
        ELSE name[i]]

\* the members of the enum in definition order: member name and DifficultyLevel
DifficultyPreset ==
    << [name |-> <<"B", "E", "G", "I", "N", "N", "E", "R">>,
        level |-> [name |-> "Beginner", width |-> 9, height |-> 9,
                   mines |-> 10]],
       [name |-> <<"I", "N", "T", "E", "R", "M", "E", "D", "I", "A", "T", "E">>,
        level |-> [name |-> "Intermediate", width |-> 16, height |-> 16,
                   mines |-> 40]],
       [name |-> <<"A", "D", "V", "A", "N", "C", "E", "D">>,
        level |-> [name |-> "Advanced", width |-> 30, height |-> 16,
                   mines |-> 99]] >>

\* the loop "for preset in cls" from member i on; [exc, value], value present
\* only when a member matched
RECURSIVE get_by_name_for(_, _)
get_by_name_for(name_lower, i) ==
    IF i > Len(DifficultyPreset) THEN [exc |-> "ValueError"]
    ELSE IF lower(DifficultyPreset[i].name) = name_lower
    THEN [exc |-> "None", value |-> DifficultyPreset[i].level]
    ELSE get_by_name_for(name_lower, i + 1)

\* get_by_name that looks the name up as it was typed
get_by_name_as_typed(name) ==
    get_by_name_for(name, 1)

get_by_name(name) ==
    get_by_name_for(lower(name), 1)

----------------------------------------------------------------------------
(* game_state.py *)

\* the fields of a GameSession, with the clock datetime.now() reads
Self ==
    [ difficulty |-> difficulty, board |-> board, state |-> state,
      start_time |-> start_time, end_time |-> end_time,
      moves_count |-> moves_count, flags_used |-> flags_used, clock |-> clock ]

\* "GameSession(difficulty)" constructed when the clock reads now: no validation
\* of the difficulty, the board built from it as given
GameSession_init(d, now) ==
    [ difficulty |-> d, board |-> Board_init(d.width, d.height, d.mines),
      state |-> "new", start_time |-> <<>>, end_time |-> <<>>,
      moves_count |-> 0, flags_used |-> 0, clock |-> now ]

\* start_game without its state check
start_game_unguarded(s) ==
    [s EXCEPT !.state = "playing", !.start_time = <<s.clock>>, !.clock = @ + 1]

start_game(s) ==
    IF s.state = "new"
    THEN [s EXCEPT !.state = "playing", !.start_time = <<s.clock>>,
                   !.clock = @ + 1]
    ELSE s

\* "self.state = st; self.end_time = datetime.now()"
end_game(s, st) ==
    [s EXCEPT !.state = st, !.end_time = <<s.clock>>, !.clock = @ + 1]

\* the reveal branch of make_move with the win check ahead of the lose check
make_move_reveal_win_first(s, row, col, sample) ==
    LET r == reveal_cell(s.board, row, col, sample)
        s1 == [s EXCEPT !.board = r.board]
    IN IF r.exc # "None" THEN [session |-> s, exc |-> r.exc, value |-> FALSE]
       ELSE IF ~r.value THEN [session |-> s1, exc |-> "None", value |-> FALSE]
       ELSE LET s2 == [s1 EXCEPT !.moves_count = @ + 1]
                s3 == IF check_win_condition(s2.board) THEN end_game(s2, "won")
                      ELSE IF check_lose_condition(s2.board)
                      THEN end_game(s2, "lost")
                      ELSE s2
            IN [session |-> s3, exc |-> "None", value |-> TRUE]

\* the reveal branch of make_move counting one move per cell revealed
make_move_reveal_counts_cells(s, row, col, sample) ==
    LET r == reveal_cell(s.board, row, col, sample)
        s1 == [s EXCEPT !.board = r.board]
    IN IF r.exc # "None" THEN [session |-> s, exc |-> r.exc, value |-> FALSE]
       ELSE IF ~r.value THEN [session |-> s1, exc |-> "None", value |-> FALSE]
       ELSE LET s2 == [s1 EXCEPT !.moves_count =
                          @ + r.board.revealed_count - s.board.revealed_count]
                s3 == IF check_lose_condition(s2.board) THEN end_game(s2, "lost")
                      ELSE IF check_win_condition(s2.board) THEN end_game(s2, "won")
                      ELSE s2
            IN [session |-> s3, exc |-> "None", value |-> TRUE]

\* the branch action == 'reveal' of make_move
make_move_reveal(s, row, col, sample) ==
    LET r == reveal_cell(s.board, row, col, sample)
        s1 == [s EXCEPT !.board = r.board]
    IN IF r.exc # "None" THEN [session |-> s, exc |-> r.exc, value |-> FALSE]
       ELSE IF ~r.value THEN [session |-> s1, exc |-> "None", value |-> FALSE]
       ELSE LET s2 == [s1 EXCEPT !.moves_count = @ + 1]
                s3 == IF check_lose_condition(s2.board) THEN end_game(s2, "lost")
                      ELSE IF check_win_condition(s2.board) THEN end_game(s2, "won")
                      ELSE s2
            IN [session |-> s3, exc |-> "None", value |-> TRUE]

\* the flag branch of make_move counting only the flags that are placed
make_move_flag_counts_placed(s, row, col) ==
    LET r == flag_cell(s.board, row, col)
        s1 == [s EXCEPT !.board = r.board]
    IN IF r.exc # "None" THEN [session |-> s, exc |-> r.exc, value |-> FALSE]
       ELSE IF ~r.value THEN [session |-> s1, exc |-> "None", value |-> FALSE]
       ELSE [session |-> IF is_flagged(r.board.cells[<<row, col>>])
                         THEN [s1 EXCEPT !.flags_used = @ + 1]
                         ELSE s1,
             exc |-> "None", value |-> TRUE]

\* the flag branch of make_move counting every flag move the board accepts
\* or rejects
make_move_flag_counts_attempts(s, row, col) ==
    LET r == flag_cell(s.board, row, col)
        s1 == [s EXCEPT !.board = r.board, !.flags_used = @ + 1]
    IN IF r.exc # "None" THEN [session |-> s, exc |-> r.exc, value |-> FALSE]
       ELSE [session |-> s1, exc |-> "None", value |-> r.value]

\* the branch action == 'flag' of make_move
make_move_flag(s, row, col) ==
    LET r == flag_cell(s.board, row, col)
        s1 == [s EXCEPT !.board = r.board]
    IN IF r.exc # "None" THEN [session |-> s, exc |-> r.exc, value |-> FALSE]
       ELSE IF ~r.value THEN [session |-> s1, exc |-> "None", value |-> FALSE]
       ELSE [session |-> [s1 EXCEPT !.flags_used = @ + 1],
             exc |-> "None", value |-> TRUE]

\* make_move that refuses only a finished game
make_move_while_paused(s, row, col, action, sample) ==
    IF s.state \in {"won", "lost"}
    THEN [session |-> s, exc |-> "ValueError", value |-> FALSE]
    ELSE LET s0 == IF s.state = "new" THEN start_game(s) ELSE s
         IN IF action = "reveal" THEN make_move_reveal(s0, row, col, sample)
            ELSE IF action = "flag" THEN make_move_flag(s0, row, col)
            ELSE [session |-> s0, exc |-> "None", value |-> FALSE]

\* make_move that does not start a new game
make_move_without_start(s, row, col, action, sample) ==
    IF s.state \notin {"playing", "new"}
    THEN [session |-> s, exc |-> "ValueError", value |-> FALSE]
    ELSE IF action = "reveal" THEN make_move_reveal(s, row, col, sample)
    ELSE IF action = "flag" THEN make_move_flag(s, row, col)
    ELSE [session |-> s, exc |-> "None", value |-> FALSE]

make_move(s, row, col, action, sample) ==
    IF s.state \notin {"playing", "new"}
    THEN [session |-> s, exc |-> "ValueError", value |-> FALSE]
    ELSE LET s0 == IF s.state = "new" THEN start_game(s) ELSE s
         IN IF action = "reveal" THEN make_move_reveal(s0, row, col, sample)
            ELSE IF action = "flag" THEN make_move_flag(s0, row, col)
            ELSE [session |-> s0, exc |-> "None", value |-> FALSE]

\* expand_adjacent without the win check after the expansion
expand_adjacent_no_win_check(s, row, col) ==
    IF s.state # "playing"
    THEN [session |-> s, exc |-> "ValueError", value |-> FALSE]
    ELSE LET r == expand_adjacent_cells(s.board, row, col)
             s1 == [s EXCEPT !.board = r.board]
         IN IF r.exc # "None" THEN [session |-> s, exc |-> r.exc, value |-> FALSE]
            ELSE IF r.value = {} THEN [session |-> s1, exc |-> "None", value |-> FALSE]
            ELSE [session |-> [s1 EXCEPT !.moves_count = @ + 1],
                  exc |-> "None", value |-> TRUE]

\* expand_adjacent that starts a new game the way make_move does
expand_adjacent_auto_start(s, row, col) ==
    IF s.state \notin {"playing", "new"}
    THEN [session |-> s, exc |-> "ValueError", value |-> FALSE]
    ELSE LET s0 == IF s.state = "new" THEN start_game(s) ELSE s
             r == expand_adjacent_cells(s0.board, row, col)
             s1 == [s0 EXCEPT !.board = r.board]
         IN IF r.exc # "None" THEN [session |-> s0, exc |-> r.exc, value |-> FALSE]
            ELSE IF r.value = {} THEN [session |-> s1, exc |-> "None", value |-> FALSE]
            ELSE LET s2 == [s1 EXCEPT !.moves_count = @ + 1]
                     s3 == IF check_win_condition(s2.board) THEN end_game(s2, "won")
                           ELSE s2
                 IN [session |-> s3, exc |-> "None", value |-> TRUE]

expand_adjacent(s, row, col) ==
    IF s.state # "playing"
    THEN [session |-> s, exc |-> "ValueError", value |-> FALSE]
    ELSE LET r == expand_adjacent_cells(s.board, row, col)
             s1 == [s EXCEPT !.board = r.board]
         IN IF r.exc # "None" THEN [session |-> s, exc |-> r.exc, value |-> FALSE]
            ELSE IF r.value = {} THEN [session |-> s1, exc |-> "None", value |-> FALSE]
            ELSE LET s2 == [s1 EXCEPT !.moves_count = @ + 1]
                     s3 == IF check_win_condition(s2.board) THEN end_game(s2, "won")
                           ELSE s2
                 IN [session |-> s3, exc |-> "None", value |-> TRUE]

\* pause_game without its state check
pause_game_unguarded(s) ==
    [s EXCEPT !.state = "paused"]

pause_game(s) ==
    IF s.state = "playing" THEN [s EXCEPT !.state = "paused"] ELSE s

\* resume_game without its state check
resume_game_unguarded(s) ==
    [s EXCEPT !.state = "playing"]

resume_game(s) ==
    IF s.state = "paused" THEN [s EXCEPT !.state = "playing"] ELSE s

\* "end_time = self.end_time or datetime.now()": the duration in clock ticks, <<>>
\* for None
get_game_duration(s) ==
    IF s.start_time = <<>> THEN <<>>
    ELSE LET ended == IF s.end_time # <<>> THEN s.end_time[1] ELSE s.clock
         IN <<ended - s.start_time[1]>>

\* reset_game that leaves the two counters as they are
reset_game_keeps_counters(s) ==
    [s EXCEPT !.board = Board_init(s.difficulty.width, s.difficulty.height,
                                   s.difficulty.mines),
              !.state = "new", !.start_time = <<>>, !.end_time = <<>>]

reset_game(s) ==
    [s EXCEPT !.board = Board_init(s.difficulty.width, s.difficulty.height,
                                   s.difficulty.mines),
              !.state = "new", !.start_time = <<>>, !.end_time = <<>>,
              !.moves_count = 0, !.flags_used = 0]

is_game_over(s) == s.state \in {"won", "lost"}
is_game_active(s) == s.state \in {"playing", "paused"}

\* custom_settings.get(key, default) on the keyword arguments given
custom_settings_get(custom_settings, key, default) ==
    IF key \in DOMAIN custom_settings THEN custom_settings[key] ELSE default

\* create_game_session that builds the custom difficulty without validating it
create_game_session_unvalidated(difficulty_name, custom_settings, now) ==
    IF lower(difficulty_name) = <<"c", "u", "s", "t", "o", "m">>
    THEN [exc |-> "None", message |-> "",
          value |-> GameSession_init(
                       [name |-> "Custom",
                        width |-> custom_settings_get(custom_settings, "width", 9),
                        height |-> custom_settings_get(custom_settings, "height", 9),
                        mines |-> custom_settings_get(custom_settings, "mines", 10)],
                       now)]
    ELSE LET found == get_by_name(difficulty_name)
         IN IF found.exc # "None"
            THEN [exc |-> "ValueError", message |-> "Unknown difficulty level"]
            ELSE [exc |-> "None", message |-> "",
                  value |-> GameSession_init(found.value, now)]

\* [exc, message, value]: value, the new session, is present only when the call
\* returns
create_game_session(difficulty_name, custom_settings, now) ==
    IF lower(difficulty_name) = <<"c", "u", "s", "t", "o", "m">>
    THEN LET width == custom_settings_get(custom_settings, "width", 9)
             height == custom_settings_get(custom_settings, "height", 9)
             mines == custom_settings_get(custom_settings, "mines", 10)
             checked == validate_board_settings(width, height, mines)
         IN IF checked.exc # "None"
            THEN [exc |-> checked.exc, message |-> checked.message]
            ELSE [exc |-> "None", message |-> "",
                  value |-> GameSession_init(
                               [name |-> "Custom", width |-> width,
                                height |-> height, mines |-> mines], now)]
    ELSE LET found == get_by_name(difficulty_name)
         IN IF found.exc # "None"
            THEN [exc |-> "ValueError", message |-> "Unknown difficulty level"]
            ELSE [exc |-> "None", message |-> "",
                  value |-> GameSession_init(found.value, now)]

----------------------------------------------------------------------------
(* The state machine *)

\* positions the callers pass: every cell, one position with the row off the
\* grid and one with the column off the grid
InputPositions ==
    Positions(board.width, board.height) \cup {<<-1, 0>>, <<0, board.width>>}

\* the session after a call, kept within the bounds of the model
Becomes(s) ==
    /\ s.clock <= MaxClock
    /\ s.flags_used <= MaxFlagsUsed
    /\ difficulty' = s.difficulty
    /\ board' = s.board
    /\ state' = s.state
    /\ start_time' = s.start_time
    /\ end_time' = s.end_time
    /\ moves_count' = s.moves_count
    /\ flags_used' = s.flags_used
    /\ clock' = s.clock

Init ==
    \E d \in Difficulties :
        /\ difficulty = d
        /\ board = Board_init(d.width, d.height, d.mines)
        /\ state = "new"
        /\ start_time = <<>>
        /\ end_time = <<>>
        /\ moves_count = 0
        /\ flags_used = 0
        /\ clock = 0

(* GameSession operations *)

StartGame ==
    Becomes(start_game(Self))

\* random.sample is reached only by the reveal branch
make_move_sample_choices(s, row, col, action) ==
    IF s.state \in {"playing", "new"} /\ action = "reveal"
    THEN reveal_sample_choices(s.board, row, col)
    ELSE {{}}

MakeMove(row, col, action) ==
    \E sample \in make_move_sample_choices(Self, row, col, action) :
        Becomes(make_move(Self, row, col, action, sample).session)

ExpandAdjacent(row, col) ==
    Becomes(expand_adjacent(Self, row, col).session)

PauseGame ==
    Becomes(pause_game(Self))

ResumeGame ==
    Becomes(resume_game(Self))

ResetGame ==
    Becomes(reset_game(Self))

Next ==
    \/ StartGame
    \/ \E p \in InputPositions : \E action \in Actions : MakeMove(p[1], p[2], action)
    \/ \E p \in InputPositions : ExpandAdjacent(p[1], p[2])
    \/ PauseGame
    \/ ResumeGame
    \/ ResetGame

Spec == Init /\ [][Next]_vars

(* Board operations called directly on the board of a new session *)

BoardBecomes(b) ==
    /\ b.flagged_count <= MaxFlagged
    /\ board' = b
    /\ UNCHANGED sessionVars

GenerateMines(safe_row, safe_col) ==
    \E sample \in sample_choices(board, safe_row, safe_col) :
        BoardBecomes(generate_mines(board, safe_row, safe_col, sample))

RevealCell(row, col) ==
    \E sample \in reveal_sample_choices(board, row, col) :
        BoardBecomes(reveal_cell(board, row, col, sample).board)

FlagCell(row, col) ==
    BoardBecomes(flag_cell(board, row, col).board)

ExpandAdjacentCells(row, col) ==
    BoardBecomes(expand_adjacent_cells(board, row, col).board)

NextBoard ==
    \/ \E p \in InputPositions : GenerateMines(p[1], p[2])
    \/ \E p \in InputPositions : RevealCell(p[1], p[2])
    \/ \E p \in InputPositions : FlagCell(p[1], p[2])
    \/ \E p \in InputPositions : ExpandAdjacentCells(p[1], p[2])

SpecBoard == Init /\ [][NextBoard]_vars

(* The board as play drives it: reveal_cell, flag_cell, expand_adjacent_cells,
   and generate_mines only as a repeated call, after the first click placed
   the mines *)

GenerateMinesAgain(safe_row, safe_col) ==
    /\ board.mine_positions # {}
    /\ GenerateMines(safe_row, safe_col)

NextPlay ==
    \/ \E p \in InputPositions : RevealCell(p[1], p[2])
    \/ \E p \in InputPositions : FlagCell(p[1], p[2])
    \/ \E p \in InputPositions : ExpandAdjacentCells(p[1], p[2])
    \/ \E p \in InputPositions : GenerateMinesAgain(p[1], p[2])

SpecPlay == Init /\ [][NextPlay]_vars

(* Sessions as the application obtains them: start_new_game keeps the session
   create_game_session returns (game_window.py:54), and a caller may construct
   GameSession(difficulty) itself, as the unit tests do.  The first session is
   the one GameWindow.run asks for, start_new_game("beginner"). *)

\* str.upper() and str.capitalize(), to spell the names a caller may type
upper(name) ==
    [i \in DOMAIN name |->
        IF \E k \in DOMAIN LowerCase : LowerCase[k] = name[i]
        THEN UpperCase[CHOOSE k \in DOMAIN LowerCase : LowerCase[k] = name[i]]
        ELSE name[i]]

capitalize(name) ==
    [i \in DOMAIN name |-> IF i = 1 THEN upper(name)[i] ELSE name[i]]

Spellings(name) == {name, upper(name), capitalize(name)}

BeginnerName == <<"b", "e", "g", "i", "n", "n", "e", "r">>
IntermediateName ==
    <<"i", "n", "t", "e", "r", "m", "e", "d", "i", "a", "t", "e">>
AdvancedName == <<"a", "d", "v", "a", "n", "c", "e", "d">>
CustomName == <<"c", "u", "s", "t", "o", "m">>

PresetNames == {BeginnerName, IntermediateName, AdvancedName}

\* names that are neither a preset nor custom: another word, a prefix of a
\* preset, a preset with a blank after it, the empty string
UnknownNames ==
    { <<"e", "x", "p", "e", "r", "t">>, SubSeq(BeginnerName, 1, 5),
      Append(AdvancedName, " "), <<>> }

NameInputs ==
    UNION {Spellings(name) : name \in PresetNames \cup {CustomName} \cup UnknownNames}

\* widths and heights around the limits 9 and 30
SettingsSizes == {8, 9, 10, 30, 31}

\* mine counts around the limits 1, width*height and a quarter of the cells
MineInputs(width, height) ==
    {0, 1, 10, (width * height) \div 4, (width * height) \div 4 + 1,
     width * height - 1, width * height}

SettingsInputs ==
    UNION {{[width |-> w, height |-> h, mines |-> m] : m \in MineInputs(w, h)} :
           <<w, h>> \in SettingsSizes \X SettingsSizes}

NoSettings == [key \in {} |-> 0]

\* keyword arguments: all three, none, or some left to their defaults
CustomSettingsInputs ==
    SettingsInputs
       \cup {NoSettings, [width |-> 10], [height |-> 8], [mines |-> 21],
             [width |-> 10, height |-> 10, mines |-> 25],
             [width |-> 20, height |-> 20, mines |-> 100]}

\* the calls offered: every name with no settings and with settings it must
\* ignore, the spellings of custom with every settings input
CreateInputs ==
    (NameInputs \X {NoSettings, [width |-> 8, height |-> 8, mines |-> 0]})
       \cup (Spellings(CustomName) \X CustomSettingsInputs)

DifficultyLevelInputs ==
    {[name |-> "Test", width |-> d.width, height |-> d.height, mines |-> d.mines] :
        d \in SettingsInputs}

InitCreate ==
    /\ clock = 0
    /\ LET s == create_game_session(BeginnerName, NoSettings, 0).value
       IN /\ difficulty = s.difficulty
          /\ board = s.board
          /\ state = s.state
          /\ start_time = s.start_time
          /\ end_time = s.end_time
          /\ moves_count = s.moves_count
          /\ flags_used = s.flags_used

\* "self.game_session = create_game_session(...)": no assignment when it raises
CreateGameSession(difficulty_name, custom_settings) ==
    LET r == create_game_session(difficulty_name, custom_settings, clock)
    IN IF r.exc = "None" THEN Becomes(r.value) ELSE UNCHANGED vars

ConstructGameSession(d) ==
    Becomes(GameSession_init(d, clock))

NextCreate ==
    \/ \E in \in CreateInputs : CreateGameSession(in[1], in[2])
    \/ \E d \in DifficultyLevelInputs : ConstructGameSession(d)

SpecCreate == InitCreate /\ [][NextCreate]_vars

----------------------------------------------------------------------------
(* Vocabulary of the properties, stated on the data and not through the
   operators above *)

Cells == DOMAIN board.cells

Abs(n) == IF n < 0 THEN -n ELSE n

\* the in-bounds 8-neighbours of p
Neighbours(p) ==
    {q \in Cells : q # p /\ Abs(q[1] - p[1]) <= 1 /\ Abs(q[2] - p[2]) <= 1}

CellsIn(b, st) == {p \in DOMAIN b.cells : b.cells[p].state = st}

MinesGenerated == board.mine_positions # {}

SafeCells == {p \in Cells : p \notin board.mine_positions}

AllSafeRevealed == \A p \in SafeCells : board.cells[p].state = "Revealed"

MineRevealed == \E p \in board.mine_positions : board.cells[p].state = "Revealed"

\* every reveal_cell call of a chord finds first_click already cleared
FirstClickMeansNothingRevealed ==
    board.first_click => CellsIn(board, "Revealed") = {}

----------------------------------------------------------------------------
(* Properties *)

\* C1: after every sequence of generate_mines, reveal_cell, flag_cell and
\* expand_adjacent_cells calls (flood fills and chords included), revealed_count
\* is the number of Revealed cells and flagged_count the number of Flagged cells.
CountsMatchCells ==
    /\ board.revealed_count = Cardinality(CellsIn(board, "Revealed"))
    /\ board.flagged_count = Cardinality(CellsIn(board, "Flagged"))

\* a flood fill or a chord has run (several cells revealed past the first
\* click) while a flag stands on the board
CountsMatchCellsWitness ==
    /\ board.revealed_count >= 4
    /\ board.flagged_count >= 1
    /\ CellsIn(board, "Hidden") # {}

\* C2: whenever a mine cell is Revealed (check_lose_condition is true), the
\* session state is Lost.
LoseConditionMeansLost ==
    check_lose_condition(board) => state = "lost"

\* C3: state Won implies that every non-mine cell is Revealed and no mine cell
\* is Revealed.
WonMeansBoardCleared ==
    state = "won" => (AllSafeRevealed /\ ~MineRevealed)

\* C4: once the mines are generated, check_win_condition is true exactly when
\* every non-mine cell is Revealed.
CheckWinIffAllSafeRevealed ==
    MinesGenerated => (check_win_condition(board) <=> AllSafeRevealed)

\* C5: when the mines are generated, every non-mine cell is Revealed and no mine
\* cell is Revealed, the session is Won and end_time is set.
BoardClearedMeansWon ==
    (MinesGenerated /\ AllSafeRevealed /\ ~MineRevealed)
        => (state = "won" /\ end_time # <<>>)

\* a session that revealed its last non-mine cell without touching a mine
BoardClearedMeansWonWitness ==
    /\ MinesGenerated /\ AllSafeRevealed /\ ~MineRevealed
    /\ state = "won"
    /\ moves_count >= 2

\* C6: for every in-bounds position, mine generation with that position as
\* the safe one (triggered by the first reveal_cell there, or by generate_mines
\* called with it) leaves the position out of mine_positions and its cell not
\* a mine.
SafeLeftUnmined(b, p) ==
    p \notin b.mine_positions /\ ~b.cells[p].is_mine

FirstClickNeverMined ==
    ~MinesGenerated =>
        \A p \in Cells :
            /\ \A sample \in sample_choices(board, p[1], p[2]) :
                  SafeLeftUnmined(generate_mines(board, p[1], p[2], sample), p)
            /\ (board.first_click /\ board.cells[p].state = "Hidden") =>
                  \A sample \in reveal_sample_choices(board, p[1], p[2]) :
                      LET b == reveal_cell(board, p[1], p[2], sample).board
                      IN b.mine_positions # {} /\ SafeLeftUnmined(b, p)

\* a board without mines on which a first reveal_cell generates them, with
\* flags already placed
FirstClickNeverMinedWitness ==
    /\ ~MinesGenerated /\ board.first_click
    /\ board.flagged_count >= 1
    /\ \E p \in Cells :
          /\ board.cells[p].state = "Hidden"
          /\ \E sample \in reveal_sample_choices(board, p[1], p[2]) :
                reveal_cell(board, p[1], p[2], sample).board.mine_positions # {}

\* C7: a cell is a mine iff its position is in mine_positions, and every
\* non-mine cell's adjacent_mines is the number of mine positions among its
\* in-bounds 8-neighbours, for every mine placement.
AdjacentMinesExact ==
    \A p \in Cells :
        /\ board.cells[p].is_mine <=> p \in board.mine_positions
        /\ ~board.cells[p].is_mine =>
              board.cells[p].adjacent_mines
                  = Cardinality(Neighbours(p) \cap board.mine_positions)

\* mines are placed and some cell counts two of them
AdjacentMinesExactWitness ==
    /\ MinesGenerated
    /\ \E p \in Cells : board.cells[p].adjacent_mines = 2
    /\ \E p \in Cells : ~board.cells[p].is_mine /\ board.cells[p].adjacent_mines = 0

\* C8: mine_positions is empty while no cell is revealed; once a cell is
\* revealed it holds exactly mine_count in-bounds positions; and once filled
\* no reveal_cell, flag_cell, expand_adjacent_cells or repeated generate_mines
\* call changes it.
MinePositionsFilledOnce ==
    /\ [](/\ CellsIn(board, "Revealed") = {} => board.mine_positions = {}
          /\ CellsIn(board, "Revealed") # {} =>
                /\ Cardinality(board.mine_positions) = board.mine_count
                /\ board.mine_positions \subseteq Cells)
    /\ [][board.mine_positions # {}
             => board'.mine_positions = board.mine_positions]_vars

\* mines placed by the first reveal, with play going on after it
MinePositionsFilledOnceWitness ==
    /\ MinesGenerated
    /\ board.revealed_count >= 2
    /\ board.flagged_count >= 1

\* C9: expand_adjacent_cells returns the empty set and leaves the board as it
\* was whenever the target cell is not Revealed, or has adjacent_mines = 0, or
\* the number of Flagged neighbours differs from its adjacent_mines.
FlaggedNeighbours(p) == {q \in Neighbours(p) : board.cells[q].state = "Flagged"}

ChordGateOpen(p) ==
    /\ board.cells[p].state = "Revealed"
    /\ board.cells[p].adjacent_mines # 0
    /\ Cardinality(FlaggedNeighbours(p)) = board.cells[p].adjacent_mines

ChordReturnsEveryRevealedCell ==
    \A p \in Cells :
        ChordGateOpen(p) =>
            LET r == expand_adjacent_cells(board, p[1], p[2])
            IN r.value = CellsIn(r.board, "Revealed") \ CellsIn(board, "Revealed")

\* C11: reveal_cell on an in-bounds Hidden cell returns True and leaves the
\* cell Revealed, and the same call repeated returns False and changes nothing;
\* on a Revealed or Flagged cell it returns False and leaves the whole board
\* as it was, first_click and mine_positions included.
RevealedBy(b, p, sample) == reveal_cell(b, p[1], p[2], sample)

RevealOnceThenRejected ==
    \A p \in Cells :
        \A sample \in reveal_sample_choices(board, p[1], p[2]) :
            LET r == RevealedBy(board, p, sample)
                again == RevealedBy(r.board, p, NoSample)
            IN IF board.cells[p].state = "Hidden"
               THEN /\ r.exc = "None" /\ r.value = TRUE
                    /\ r.board.cells[p].state = "Revealed"
                    /\ again.exc = "None" /\ again.value = FALSE
                    /\ again.board = r.board
               ELSE r.exc = "None" /\ r.value = FALSE /\ r.board = board

\* a board not yet clicked that carries a flag (the rejected reveal is the
\* first call) next to a cell a reveal succeeds on
RevealOnceThenRejectedWitness ==
    /\ board.first_click /\ ~MinesGenerated
    /\ \E p \in Cells : board.cells[p].state = "Flagged"
    /\ \E p \in Cells :
          /\ board.cells[p].state = "Hidden"
          /\ \E sample \in reveal_sample_choices(board, p[1], p[2]) :
                RevealedBy(board, p, sample).board.revealed_count >= 2

\* C12: no reveal_cell (flood fill included) and no expand_adjacent_cells call
\* changes the state of a Flagged cell or flagged_count, and flag_cell takes
\* only the cell at its own position out of Flagged.
StaysFlagged(b, after, except) ==
    \A q \in CellsIn(b, "Flagged") \ except : after.cells[q].state = "Flagged"

FlaggedCellsOnlyToggled ==
    \A p \in Cells :
        /\ \A sample \in reveal_sample_choices(board, p[1], p[2]) :
              LET after == RevealedBy(board, p, sample).board
              IN /\ StaysFlagged(board, after, {})
                 /\ after.flagged_count = board.flagged_count
        /\ LET after == expand_adjacent_cells(board, p[1], p[2]).board
           IN /\ StaysFlagged(board, after, {})
              /\ after.flagged_count = board.flagged_count
        /\ StaysFlagged(board, flag_cell(board, p[1], p[2]).board, {p})

\* a flood fill runs past a flag: the reveal of a hidden cell reveals a
\* zero-count cell that has a Flagged neighbour
FlaggedCellsOnlyToggledWitness ==
    \E p \in Cells, f \in Cells :
        /\ MinesGenerated
        /\ board.cells[p].state = "Hidden"
        /\ board.cells[f].state = "Flagged"
        /\ LET after == RevealedBy(board, p, NoSample).board
           IN \E z \in Neighbours(f) :
                 /\ board.cells[z].state = "Hidden"
                 /\ after.cells[z].state = "Revealed"
                 /\ after.cells[z].adjacent_mines = 0 /\ ~after.cells[z].is_mine

\* C13: after reveal_cell returns True on a non-mine cell with adjacent_mines
\* = 0, the cells newly Revealed are exactly the closure that starts from the
\* cell and repeatedly adds every neighbour, Hidden at the start of the call, of
\* a newly revealed non-mine cell with adjacent_mines = 0; every zero-count
\* cell the call revealed then has all its neighbours Revealed or Flagged.
ZeroCell(b, z) == ~b.cells[z].is_mine /\ b.cells[z].adjacent_mines = 0

RECURSIVE FloodClosure(_, _, _)
FloodClosure(before, after, reached) ==
    LET more == {q \in CellsIn(before, "Hidden") :
                    \E z \in reached : q \in Neighbours(z) /\ ZeroCell(after, z)}
    IN IF more \subseteq reached THEN reached
       ELSE FloodClosure(before, after, reached \cup more)

NewlyRevealed(before, after) ==
    CellsIn(after, "Revealed") \ CellsIn(before, "Revealed")

FloodFillIsClosure ==
    \A p \in CellsIn(board, "Hidden") :
        \A sample \in reveal_sample_choices(board, p[1], p[2]) :
            LET r == RevealedBy(board, p, sample)
                new == NewlyRevealed(board, r.board)
            IN r.value /\ ZeroCell(r.board, p) =>
                  /\ new = FloodClosure(board, r.board, {p})
                  /\ \A z \in new :
                        ZeroCell(r.board, z) =>
                           \A q \in Neighbours(z) :
                              r.board.cells[q].state \in {"Revealed", "Flagged"}
                  /\ r.board.revealed_count
                        = board.revealed_count + Cardinality(new)

\* a fill that goes beyond the neighbours of the clicked cell, stops at a
\* numbered cell and leaves a flag standing beside a zero-count cell
FloodFillIsClosureWitness ==
    \E p \in CellsIn(board, "Hidden") :
        /\ MinesGenerated
        /\ LET r == RevealedBy(board, p, NoSample)
               new == NewlyRevealed(board, r.board)
           IN /\ r.value /\ ZeroCell(r.board, p)
              /\ \E q \in new : q # p /\ q \notin Neighbours(p)
              /\ \E q \in new : r.board.cells[q].adjacent_mines > 0
              /\ \E z \in new :
                    /\ ZeroCell(r.board, z)
                    /\ \E f \in Neighbours(z) :
                          r.board.cells[f].state = "Flagged"
              /\ \E h \in Cells : r.board.cells[h].state = "Hidden"

\* what a session call may not touch when it is said to change nothing
SessionFields(s) ==
    <<s.difficulty, s.board, s.state, s.start_time, s.end_time,
      s.moves_count, s.flags_used>>

\* the positions a make_move call can be given in session s, each with the
\* outcomes random.sample can have in that call
MoveInputs(s, action) ==
    UNION {{<<p, sample>> :
               sample \in make_move_sample_choices(s, p[1], p[2], action)} :
           p \in InputPositions}

\* C14: make_move called while the state is Paused, Won or Lost raises
\* ValueError for every position and action and leaves the session state, the
\* counters, the timestamps and the board unchanged.
MoveRefusedUnlessNewOrPlaying ==
    state \in {"paused", "won", "lost"} =>
        \A p \in InputPositions, action \in Actions :
            LET r == make_move(Self, p[1], p[2], action, NoSample)
            IN r.exc = "ValueError" /\ SessionFields(r.session) = SessionFields(Self)

\* a paused game in which a reveal and a flag would both succeed if played
MoveRefusedUnlessNewOrPlayingWitness ==
    /\ state = "paused"
    /\ MinesGenerated
    /\ \E p \in Cells :
          /\ board.cells[p].state = "Hidden"
          /\ make_move([Self EXCEPT !.state = "playing"],
                       p[1], p[2], "reveal", NoSample).value

\* C15: expand_adjacent raises ValueError in every state other than Playing,
\* New included (no auto-start), and then leaves the session state, start_time,
\* the counters and the board unchanged.
ExpandRefusedUnlessPlaying ==
    state # "playing" =>
        \A p \in InputPositions :
            LET r == expand_adjacent(Self, p[1], p[2])
            IN r.exc = "ValueError" /\ SessionFields(r.session) = SessionFields(Self)

\* a paused game in which a chord on p would reveal cells if played
ExpandRefusedUnlessPlayingWitness ==
    /\ state = "paused"
    /\ \E p \in Cells :
          /\ ChordGateOpen(p)
          /\ expand_adjacent([Self EXCEPT !.state = "playing"], p[1], p[2]).value

\* C16: make_move with an action other than reveal and flag, in state New or
\* Playing, returns False and mutates nothing: state, start_time, moves_count,
\* flags_used and the board are as before the call.
OtherActionMutatesNothing ==
    state \in {"new", "playing"} =>
        \A p \in InputPositions :
            LET r == make_move(Self, p[1], p[2], "other", NoSample)
            IN /\ r.exc = "None" /\ r.value = FALSE
               /\ SessionFields(r.session) = SessionFields(Self)

\* C17: whenever make_move or expand_adjacent raises, the call has no effect:
\* state, start_time, end_time, moves_count, flags_used and the board are as
\* before the call, in every session state, New included.
RaisingCallHasNoEffect ==
    /\ \A action \in Actions :
          \A in \in MoveInputs(Self, action) :
              LET r == make_move(Self, in[1][1], in[1][2], action, in[2])
              IN r.exc # "None" => SessionFields(r.session) = SessionFields(Self)
    /\ \A p \in InputPositions :
          LET r == expand_adjacent(Self, p[1], p[2])
          IN r.exc # "None" => SessionFields(r.session) = SessionFields(Self)

\* C18: the session state changes only along New->Playing (start_game or the
\* auto-start of make_move), Playing->Paused (pause_game), Paused->Playing
\* (resume_game), Playing->Won, Playing->Lost and any state->New (reset_game
\* only); once Won or Lost, no operation but reset_game changes the state.
\* A make_move call in New takes New->Playing by its auto-start and may then
\* take Playing->Won or Playing->Lost before it returns.
SelfNext ==
    [ difficulty |-> difficulty', board |-> board', state |-> state',
      start_time |-> start_time', end_time |-> end_time',
      moves_count |-> moves_count', flags_used |-> flags_used',
      clock |-> clock' ]

\* the step is a make_move call on session s
MovedFrom(s) ==
    \E action \in Actions :
        \E in \in MoveInputs(s, action) :
            make_move(s, in[1][1], in[1][2], action, in[2]).session = SelfNext

StateChange(from, to) == state = from /\ state' = to

StateChangesAlongEdges ==
    [][state' # state =>
          \/ /\ StateChange("new", "playing")
             /\ SelfNext = start_game(Self) \/ MovedFrom(Self)
          \/ /\ StateChange("playing", "paused")
             /\ SelfNext = pause_game(Self)
          \/ /\ StateChange("paused", "playing")
             /\ SelfNext = resume_game(Self)
          \/ /\ StateChange("playing", "won") \/ StateChange("playing", "lost")
             /\ \/ MovedFrom(Self)
                \/ \E p \in InputPositions :
                      expand_adjacent(Self, p[1], p[2]).session = SelfNext
          \/ /\ StateChange("new", "won") \/ StateChange("new", "lost")
             /\ start_game(Self).state = "playing"
             /\ MovedFrom(start_game(Self))
          \/ /\ state' = "new"
             /\ SelfNext = reset_game(Self)]_vars

\* a game won by its first make_move, called in New: auto-start at clock 0,
\* end of game at clock 1
StateChangesAlongEdgesWitness ==
    /\ state = "won"
    /\ moves_count = 1
    /\ start_time = <<0>> /\ end_time = <<1>>
    /\ \E p \in Cells :
          make_move([reset_game(Self) EXCEPT !.clock = 0], p[1], p[2], "reveal",
                    board.mine_positions).session = Self

\* C19: when a successful make_move reveal both reveals a mine and makes
\* revealed_count equal width*height - mine_count, the state becomes Lost, not
\* Won.
LoseBeforeWin ==
    state \in {"new", "playing"} =>
        \A in \in MoveInputs(Self, "reveal") :
            LET r == make_move(Self, in[1][1], in[1][2], "reveal", in[2])
                b == r.session.board
            IN /\ r.exc = "None" /\ r.value
               /\ is_revealed(b.cells[in[1]]) /\ b.cells[in[1]].is_mine
               /\ b.revealed_count = b.width * b.height - b.mine_count
               => r.session.state = "lost" /\ r.session.end_time = <<clock>>

\* a game one reveal away from both conditions: the reveal of a hidden mine
\* brings revealed_count to width*height - mine_count
LoseBeforeWinWitness ==
    /\ state = "playing"
    /\ ~check_lose_condition(board)
    /\ \E p \in board.mine_positions :
          LET r == make_move(Self, p[1], p[2], "reveal", NoSample)
          IN /\ r.value
             /\ check_lose_condition(r.session.board)
             /\ check_win_condition(r.session.board)

\* C20: a make_move flag action makes a Hidden cell Flagged and a Flagged cell
\* Hidden, returns True both times and adds 1 to flags_used each time, so flag
\* then unflag leaves the cell Hidden, flagged_count as before and flags_used
\* 2 higher; on a Revealed cell it returns False and changes neither the cell,
\* flagged_count nor flags_used.
Flagged(s, p) == make_move(s, p[1], p[2], "flag", NoSample)

FlagMoveToggles ==
    state \in {"new", "playing"} =>
        \A p \in Cells :
            LET r == Flagged(Self, p)
                again == Flagged(r.session, p)
                after == r.session.board
            IN CASE board.cells[p].state = "Hidden" ->
                      /\ r.exc = "None" /\ r.value
                      /\ after.cells[p].state = "Flagged"
                      /\ after.flagged_count = board.flagged_count + 1
                      /\ r.session.flags_used = flags_used + 1
                      /\ again.exc = "None" /\ again.value
                      /\ again.session.board.cells[p].state = "Hidden"
                      /\ again.session.board.flagged_count = board.flagged_count
                      /\ again.session.flags_used = flags_used + 2
                 [] board.cells[p].state = "Flagged" ->
                      /\ r.exc = "None" /\ r.value
                      /\ after.cells[p].state = "Hidden"
                      /\ after.flagged_count = board.flagged_count - 1
                      /\ r.session.flags_used = flags_used + 1
                 [] board.cells[p].state = "Revealed" ->
                      /\ r.exc = "None" /\ ~r.value
                      /\ after.cells[p] = board.cells[p]
                      /\ after.flagged_count = board.flagged_count
                      /\ r.session.flags_used = flags_used

\* a game in play with a Hidden, a Flagged and a Revealed cell, one flag move
\* already counted
FlagMoveTogglesWitness ==
    /\ state = "playing"
    /\ flags_used >= 1
    /\ \A st \in {"Hidden", "Flagged", "Revealed"} : CellsIn(board, st) # {}

\* C21: moves_count goes up by exactly 1 on each make_move reveal that returns
\* True and on each expand_adjacent that reveals at least one cell, however
\* many cells the flood fill or the chord reveals, and is unchanged by every
\* other call: flag moves, rejected reveals, empty chords, pause, resume, start.
OneIf(cond) == IF cond THEN 1 ELSE 0

TimestampsFollowState ==
    /\ start_time # <<>> <=> state # "new"
    /\ end_time # <<>> <=> state \in {"won", "lost"}
    /\ get_game_duration(Self) = <<>> <=> state = "new"
    /\ state # "new" => start_game(Self) = Self

StartTimeKept ==
    [][start_time # <<>> /\ start_time' # start_time
          => SelfNext = reset_game(Self)]_vars

TimestampsSetWithState == []TimestampsFollowState /\ StartTimeKept

\* a finished game: started at clock 0, ended at clock 1, duration 1
TimestampsSetWithStateWitness ==
    /\ state \in {"won", "lost"}
    /\ start_time = <<0>> /\ end_time = <<1>>
    /\ get_game_duration(Self) = <<1>>
    /\ moves_count >= 2

\* C23: reset_game in any state yields a session like a freshly constructed one
\* of the same difficulty: state New, both counters 0, both timestamps unset,
\* every cell Hidden and not a mine, revealed_count = flagged_count = 0,
\* mine_positions empty, first_click true, difficulty and dimensions unchanged.
ResetIsFresh ==
    LET s == reset_game(Self)
    IN /\ SessionFields(s) = SessionFields(GameSession_init(difficulty, clock))
       /\ s.state = "new" /\ s.moves_count = 0 /\ s.flags_used = 0
       /\ s.start_time = <<>> /\ s.end_time = <<>>
       /\ \A p \in DOMAIN s.board.cells :
             s.board.cells[p].state = "Hidden" /\ ~s.board.cells[p].is_mine
       /\ DOMAIN s.board.cells = Cells
       /\ s.board.revealed_count = 0 /\ s.board.flagged_count = 0
       /\ s.board.mine_positions = {} /\ s.board.first_click
       /\ s.difficulty = difficulty
       /\ s.board.width = board.width /\ s.board.height = board.height
       /\ s.board.mine_count = board.mine_count

\* the session after the reset of a game that was started and finished
ResetIsFreshWitness ==
    /\ state = "new"
    /\ clock = 2
    /\ SessionFields(Self) = SessionFields(GameSession_init(difficulty, 0))

\* C24: pause_game changes the state only from Playing to Paused and
\* resume_game only from Paused to Playing; in every other state each is a
\* no-op; neither changes the board, moves_count, flags_used, start_time or
\* end_time; pause then resume from Playing restores the session.
PauseResumeOnlyToggle ==
    LET paused == pause_game(Self)
        resumed == resume_game(Self)
    IN /\ paused.state = IF state = "playing" THEN "paused" ELSE state
       /\ resumed.state = IF state = "paused" THEN "playing" ELSE state
       /\ [paused EXCEPT !.state = state] = Self
       /\ [resumed EXCEPT !.state = state] = Self
       /\ state = "playing" => resume_game(paused) = Self
       /\ state = "paused" => pause_game(resumed) = Self

\* a paused game with a move and a flag move counted
PauseResumeOnlyToggleWitness ==
    /\ state = "paused"
    /\ moves_count >= 1 /\ flags_used >= 1
    /\ CellsIn(board, "Flagged") # {}

\* C25: under any sequence of board operations a cell's state changes only
\* along Hidden->Revealed, Hidden->Flagged and Flagged->Hidden: Revealed is
\* absorbing and there is no Flagged->Revealed; can_reveal is true exactly in
\* Hidden and can_flag exactly in Hidden or Flagged.
CellEdges ==
    {<<"Hidden", "Revealed">>, <<"Hidden", "Flagged">>, <<"Flagged", "Hidden">>}

CellAlongEdges(before, after) ==
    after.state # before.state => <<before.state, after.state>> \in CellEdges

CellMethodsFollowEdges ==
    \A p \in Cells :
        LET cell == board.cells[p]
        IN /\ can_reveal(cell) <=> cell.state = "Hidden"
           /\ can_flag(cell) <=> cell.state \in {"Hidden", "Flagged"}
           /\ CellAlongEdges(cell, Cell_reveal(cell))
           /\ CellAlongEdges(cell, Cell_flag(cell))
           /\ cell.state = "Hidden" =>
                 Cell_reveal(cell).state = "Revealed"
                    /\ Cell_flag(cell).state = "Flagged"
           /\ cell.state = "Flagged" =>
                 Cell_reveal(cell) = cell /\ Cell_flag(cell).state = "Hidden"
           /\ cell.state = "Revealed" =>
                 Cell_reveal(cell) = cell /\ Cell_flag(cell) = cell

CellStepsFollowEdges ==
    [][\A p \in Cells : CellAlongEdges(board.cells[p], board'.cells[p])]_vars

CellStatesAlongEdges == []CellMethodsFollowEdges /\ CellStepsFollowEdges

\* a board with mines placed, two cells or more revealed, two flags standing
\* and a hidden cell left
CellStatesAlongEdgesWitness ==
    /\ MinesGenerated
    /\ board.revealed_count >= 2
    /\ board.flagged_count = 2
    /\ CellsIn(board, "Hidden") # {}

\* C26: reveal_cell, flag_cell, expand_adjacent_cells and get_cell called with
\* a position outside the grid raise ValueError and leave the board unchanged:
\* the position is not clamped to a cell and no mines are generated.
OffGridPositions ==
    {p \in (-2 .. board.height + 1) \X (-2 .. board.width + 1) : p \notin Cells}

OffGridRaises ==
    \A p \in OffGridPositions :
        LET revealed == reveal_cell(board, p[1], p[2], NoSample)
            flagged == flag_cell(board, p[1], p[2])
            expanded == expand_adjacent_cells(board, p[1], p[2])
        IN /\ revealed.exc = "ValueError" /\ revealed.board = board
           /\ flagged.exc = "ValueError" /\ flagged.board = board
           /\ expanded.exc = "ValueError" /\ expanded.board = board
           /\ get_cell(board, p[1], p[2]).exc = "ValueError"

\* a board not yet clicked, its corner cell flagged: a clamped position would
\* unflag the corner or place the mines
OffGridRaisesWitness ==
    /\ board.first_click /\ ~MinesGenerated
    /\ board.cells[<<0, 0>>].state = "Flagged"
    /\ board.cells[<<0, board.width - 1>>].state = "Hidden"
    /\ board.flagged_count = 1
    /\ get_cell(board, 0, 0).value = board.cells[<<0, 0>>]

\* C27: for integers width, height, mine_count, validate_board_settings
\* succeeds iff 9 <= width <= 30, 9 <= height <= 30, 1 <= mine_count <
\* width*height and 4*mine_count <= width*height (a density of exactly 25% is
\* accepted); otherwise it fails, with the dimension error before the
\* mine-count error and the mine-count error before the density error.
\* the settings tried: sizes and mine counts around every limit, and those of
\* the session that exists
ValidationSizes ==
    {-1, 0, 8, 9, 10, 16, 20, 29, 30, 31} \cup {board.width, board.height}

ValidationMines(width, height) ==
    MineInputs(width, height)
       \cup {-1, 2, 20, 21, 30, 40, 99, 100, (width * height) \div 4 - 1,
             width * height + 1, board.mine_count}

DimensionsOk(width, height) ==
    9 <= width /\ width <= 30 /\ 9 <= height /\ height <= 30

MineCountOk(width, height, mine_count) ==
    1 <= mine_count /\ mine_count < width * height

DensityOk(width, height, mine_count) ==
    4 * mine_count <= width * height

DimensionErrors ==
    {"Width must be between 9 and 30", "Height must be between 9 and 30"}

MineCountErrors ==
    {"Mine count must be at least 1", "Mine count must be less than total cells"}

SettingsValidatedInOrder ==
    \A w \in ValidationSizes, h \in ValidationSizes :
        \A m \in ValidationMines(w, h) :
            LET r == validate_board_settings(w, h, m)
            IN /\ r.exc = "None" <=>
                     DimensionsOk(w, h) /\ MineCountOk(w, h, m) /\ DensityOk(w, h, m)
               /\ r.exc \in {"None", "ValueError"}
               /\ ~DimensionsOk(w, h) => r.message \in DimensionErrors
               /\ DimensionsOk(w, h) /\ ~MineCountOk(w, h, m) =>
                     r.message \in MineCountErrors
               /\ DimensionsOk(w, h) /\ MineCountOk(w, h, m) /\ ~DensityOk(w, h, m) =>
                     r.message = "Mine density too high"

\* a custom session accepted at a density of exactly 25%
SettingsValidatedInOrderWitness ==
    /\ difficulty.name = "Custom"
    /\ 4 * board.mine_count = board.width * board.height
    /\ validate_board_settings(board.width, board.height, board.mine_count).exc
          = "None"

\* C28: create_game_session with a preset name, in any letter case, returns a
\* session in state New whose board is Beginner 9x9 with 10 mines,
\* Intermediate 16x16 with 40 mines or Advanced width 30, height 16 with 99
\* mines; each preset passes validate_board_settings; a name that is neither a
\* preset nor custom raises and no session is created.
PresetSettings ==
    [n \in PresetNames |->
        IF n = BeginnerName THEN [width |-> 9, height |-> 9, mines |-> 10]
        ELSE IF n = IntermediateName THEN [width |-> 16, height |-> 16, mines |-> 40]
        ELSE [width |-> 30, height |-> 16, mines |-> 99]]

IgnoredSettings == {NoSettings, [width |-> 8, height |-> 8, mines |-> 0]}

PresetsCreatedExactly ==
    /\ \A n \in PresetNames :
          LET d == PresetSettings[n]
          IN /\ validate_board_settings(d.width, d.height, d.mines).exc = "None"
             /\ \A spelled \in Spellings(n), cs \in IgnoredSettings :
                   LET r == create_game_session(spelled, cs, clock)
                   IN /\ r.exc = "None"
                      /\ r.value.state = "new"
                      /\ r.value.board = Board_init(d.width, d.height, d.mines)
                      /\ r.value.difficulty.width = d.width
                      /\ r.value.difficulty.height = d.height
                      /\ r.value.difficulty.mines = d.mines
                      /\ r.value.moves_count = 0 /\ r.value.flags_used = 0
    /\ \A n \in UnknownNames :
          \A spelled \in Spellings(n), cs \in IgnoredSettings :
              LET r == create_game_session(spelled, cs, clock)
              IN r.exc = "ValueError" /\ "value" \notin DOMAIN r

\* the session created for Advanced: 30 columns, 16 rows, 99 mines
PresetsCreatedExactlyWitness ==
    /\ difficulty.name = "Advanced"
    /\ state = "new"
    /\ board.width = 30 /\ board.height = 16 /\ board.mine_count = 99
    /\ Cardinality(Cells) = 480

\* C29: create_game_session("custom", width, height, mines) returns a session
\* iff validate_board_settings(width, height, mines) succeeds, and then the
\* board has those dimensions and that mine count; otherwise it raises the
\* validation error and no session or board is created.
CustomCreatedIffValid ==
    \A spelled \in Spellings(CustomName), cs \in SettingsInputs :
        LET r == create_game_session(spelled, cs, clock)
            checked == validate_board_settings(cs.width, cs.height, cs.mines)
        IN /\ r.exc = "None" <=> checked.exc = "None"
           /\ r.exc = "None" =>
                 /\ r.value.board = Board_init(cs.width, cs.height, cs.mines)
                 /\ r.value.board.width = cs.width
                 /\ r.value.board.height = cs.height
                 /\ r.value.board.mine_count = cs.mines
                 /\ r.value.state = "new"
           /\ r.exc # "None" =>
                 /\ r.exc = "ValueError" /\ r.message = checked.message
                 /\ "value" \notin DOMAIN r

\* a custom session that is not square: 30 columns, 9 rows, one mine
CustomCreatedIffValidWitness ==
    /\ difficulty.name = "Custom"
    /\ board.width = 30 /\ board.height = 9 /\ board.mine_count = 1
    /\ DOMAIN board.cells = Positions(30, 9)

\* C30: constructing a Board or a GameSession from difficulty parameters that
\* violate the constraints (width or height outside [9,30], mine count < 1 or
\* >= width*height, density above 25%) fails, so no board or session with
\* invalid parameters ever exists.
NoInvalidSessionExists ==
    validate_board_settings(board.width, board.height, board.mine_count).exc
       = "None"

\* C31: when expand_adjacent_cells is called on a Revealed cell with
\* adjacent_mines > 0 whose count of Flagged neighbours equals adjacent_mines,
\* every neighbour is Revealed or Flagged on return, whether or not the flags
\* stand on mines.
ChordLeavesNoHiddenNeighbour ==
    \A p \in Cells :
        ChordGateOpen(p) =>
            LET r == expand_adjacent_cells(board, p[1], p[2])
            IN /\ r.exc = "None"
               /\ \A q \in Neighbours(p) :
                     r.board.cells[q].state \in {"Revealed", "Flagged"}

\* an open chord with two hidden neighbours or more and a flag on a cell that
\* is not a mine
ChordLeavesNoHiddenNeighbourWitness ==
    \E p \in Cells :
        /\ ChordGateOpen(p)
        /\ Cardinality({q \in Neighbours(p) : board.cells[q].state = "Hidden"}) >= 2
        /\ \E f \in FlaggedNeighbours(p) : ~board.cells[f].is_mine

\* C32: once the mines are generated, no reveal_cell (flood fill included),
\* flag_cell or expand_adjacent_cells call changes the is_mine or
\* adjacent_mines value of any cell.
MineAttributes(b) ==
    [p \in DOMAIN b.cells |-> <<b.cells[p].is_mine, b.cells[p].adjacent_mines>>]

CallsKeepMineAttributes ==
    MinesGenerated =>
        \A p \in Cells :
            /\ \A sample \in reveal_sample_choices(board, p[1], p[2]) :
                  MineAttributes(RevealedBy(board, p, sample).board)
                     = MineAttributes(board)
            /\ MineAttributes(flag_cell(board, p[1], p[2]).board)
                  = MineAttributes(board)
            /\ MineAttributes(expand_adjacent_cells(board, p[1], p[2]).board)
                  = MineAttributes(board)

StepsKeepMineAttributes ==
    [][MinesGenerated => MineAttributes(board') = MineAttributes(board)]_vars

MineAttributesConstant == []CallsKeepMineAttributes /\ StepsKeepMineAttributes

\* a board with its mines placed, a numbered cell and a mine revealed, a flag
\* standing
MineAttributesConstantWitness ==
    /\ MinesGenerated
    /\ board.flagged_count >= 1
    /\ \E p \in CellsIn(board, "Revealed") : board.cells[p].adjacent_mines > 0
    /\ \E p \in CellsIn(board, "Revealed") : board.cells[p].is_mine

\* The board reveal_cell hands to the flood fill: mines placed if this is the
\* first click, the clicked cell revealed.
BeforeFill(b, p, sample) ==
    LET b1 == IF b.first_click
              THEN [generate_mines(b, p[1], p[2], sample) EXCEPT !.first_click = FALSE]
              ELSE b
    IN [b1 EXCEPT !.cells[p] = Cell_reveal(b1.cells[p]), !.revealed_count = @ + 1]

FillFuel(b) == Cardinality(DOMAIN b.cells)

FillPasses(b, p) ==
    _reveal_adjacent_passes(b, <<p>>, {}, FillFuel(b), <<>>)

\* What a fill leaves of a board: the state of every cell and the counters
\* (a fill writes nothing else, see MineAttributesConstant).
FillOutcome(b) ==
    [ states |-> [p \in Positions(b.width, b.height) |-> b.cells[p].state],
      revealed_count |-> b.revealed_count,
      flagged_count |-> b.flagged_count ]

\* the cells a pass of the loop revealed
PassReveals(pass) == NewlyRevealed(pass.before, pass.after)

PassesDistinct(passes) ==
    \A i \in DOMAIN passes :
        \A j \in DOMAIN passes :
            i # j => /\ passes[i].current # passes[j].current
                     /\ PassReveals(passes[i]) \cap PassReveals(passes[j]) = {}

PassRevealsOnce(pass) ==
    /\ pass.expanded
    /\ CellsIn(pass.before, "Revealed") \subseteq CellsIn(pass.after, "Revealed")
    /\ pass.after.revealed_count
          = pass.before.revealed_count + Cardinality(PassReveals(pass))

\* C33: every reveal_cell call terminates (and so does every chord, which is
\* a reveal_cell call per hidden neighbour): the flood fill expands from each
\* position at most once, reveals each cell at most once (revealed_count goes
\* up once per cell) and its frontier becomes empty, within as many passes of
\* the loop as the board has cells; the board it ends in is the one
\* reveal_cell returns.
FillTerminates ==
    \A p \in CellsIn(board, "Hidden") :
        \A sample \in reveal_sample_choices(board, p[1], p[2]) :
            LET start == BeforeFill(board, p, sample)
                run == FillPasses(start, p)
            IN ZeroCell(start, p) =>
                  /\ run.to_reveal = <<>>
                  /\ PassesDistinct(run.passes)
                  /\ \A i \in DOMAIN run.passes : PassRevealsOnce(run.passes[i])
                  /\ FillOutcome(run.board)
                        = FillOutcome(RevealedBy(board, p, sample).board)

\* a fill of three passes or more in which a cell neighbours two of the
\* positions the fill expands from (it is reachable along two paths)
FillTerminatesWitness ==
    \E p \in CellsIn(board, "Hidden") :
        /\ MinesGenerated
        /\ LET start == BeforeFill(board, p, NoSample)
               passes == FillPasses(start, p).passes
           IN /\ ZeroCell(start, p)
              /\ Len(passes) >= 3
              /\ \E i \in DOMAIN passes, j \in DOMAIN passes :
                    /\ i < j
                    /\ \E q \in PassReveals(passes[i]) :
                          q \in Neighbours(passes[j].current)

\* The orders in which a pass may visit the neighbours of a position: the
\* order of get_adjacent_positions and its reverse.
Reverse(s) == [i \in 1..Len(s) |-> s[Len(s) + 1 - i]]

NeighbourOrders(b, p) ==
    LET adjacent == get_adjacent_positions(p[1], p[2], b.width, b.height)
    IN {adjacent, Reverse(adjacent)}

\* The outcomes a flood fill can end in when each pass takes any pending
\* position and visits its neighbours in either order.
RECURSIVE AnyOrderFills(_, _, _)
AnyOrderFills(b, to_reveal, revealed) ==
    IF to_reveal = <<>>
    THEN {FillOutcome(b)}
    ELSE UNION {
            UNION { LET it == _reveal_adjacent_iteration(
                                 b, to_reveal, revealed, k, adjacent_order)
                    IN AnyOrderFills(it.board, it.to_reveal, it.revealed)
                  : adjacent_order \in NeighbourOrders(b, to_reveal[k]) }
          : k \in 1..Len(to_reveal) }

\* C34: the board a flood fill ends in (the Revealed cells and revealed_count)
\* is the same for every order in which pending positions are taken and
\* neighbours are visited: it is the board the stack order of the code gives.
FillOrderIndependent ==
    \A p \in CellsIn(board, "Hidden") :
        \A sample \in reveal_sample_choices(board, p[1], p[2]) :
            LET start == BeforeFill(board, p, sample)
            IN ZeroCell(start, p) =>
                  AnyOrderFills(start, <<p>>, {})
                     = {FillOutcome(RevealedBy(board, p, sample).board)}

\* a fill with two positions pending after its first pass, where taking the
\* oldest one reveals other cells than taking the newest one
FillOrderIndependentWitness ==
    \E p \in CellsIn(board, "Hidden") :
        /\ MinesGenerated
        /\ LET start == BeforeFill(board, p, NoSample)
               adjacent == get_adjacent_positions(p[1], p[2],
                                                  start.width, start.height)
               first == _reveal_adjacent_iteration(start, <<p>>, {}, 1, adjacent)
               n == Len(first.to_reveal)
           IN /\ ZeroCell(start, p)
              /\ n >= 2
              /\ LET oldest == first.to_reveal[1]
                     newest == first.to_reveal[n]
                     fifo == _reveal_adjacent_iteration(
                                first.board, first.to_reveal, first.revealed, 1,
                                get_adjacent_positions(oldest[1], oldest[2],
                                                       start.width, start.height))
                     lifo == _reveal_adjacent_iteration(
                                first.board, first.to_reveal, first.revealed, n,
                                get_adjacent_positions(newest[1], newest[2],
                                                       start.width, start.height))
                 IN CellsIn(fifo.board, "Revealed") # CellsIn(lifo.board, "Revealed")

\* the board sizes the suggestion is asked for: every legal size, and those of
\* the session that exists
SuggestionSizes ==
    {n \in (9..30) \cup {board.width, board.height} : 9 <= n /\ n <= 30}

clamp(n, low, high) == IF n < low THEN low ELSE IF n > high THEN high ELSE n

\* the integers nearest to 15% of total_cells (two of them at a tie)
RoundedSuggestions(total_cells) ==
    {r \in 0..total_cells : Abs(100 * r - 15 * total_cells) <= 50}

\* C35: for all widths and heights from 9 to 30, the suggested mine count is
\* 15% of the cell count rounded to the nearest integer, clamped between 1 and
\* one less than the cell count.
SuggestedMinesRounded ==
    \A w \in SuggestionSizes, h \in SuggestionSizes :
        \E r \in RoundedSuggestions(w * h) :
            suggest_reasonable_settings(w, h) = clamp(r, 1, w * h - 1)

\* C36: a flood-fill cascade never reveals a mine: in every reveal_cell call,
\* every cell revealed other than the targeted one is not a mine, so a reveal
\* that targets a cell that is not a mine never makes check_lose_condition
\* true.
CascadeRevealsNoMine ==
    \A p \in CellsIn(board, "Hidden") :
        \A sample \in reveal_sample_choices(board, p[1], p[2]) :
            LET r == RevealedBy(board, p, sample)
            IN /\ \A q \in NewlyRevealed(board, r.board) \ {p} :
                     /\ ~r.board.cells[q].is_mine
                     /\ q \notin r.board.mine_positions
               /\ ~r.board.cells[p].is_mine /\ ~check_lose_condition(board) =>
                     ~check_lose_condition(r.board)

\* a reveal, not the first one, whose cascade reveals cells that border a mine
\* while a mine stays hidden
CascadeRevealsNoMineWitness ==
    /\ MinesGenerated
    /\ ~check_lose_condition(board)
    /\ \E p \in CellsIn(board, "Hidden") :
          LET r == RevealedBy(board, p, NoSample)
              new == NewlyRevealed(board, r.board)
          IN /\ Cardinality(new) >= 3
             /\ \E q \in new \ {p} : r.board.cells[q].adjacent_mines > 0
             /\ \E m \in board.mine_positions : r.board.cells[m].state = "Hidden"

\* every reveal that make_move accepts on a board before its first click
\* places the mines and returns a session that is Playing or Won
FirstRevealCalls ==
    board.first_click =>
        \A in \in MoveInputs(Self, "reveal") :
            LET r == make_move(Self, in[1][1], in[1][2], "reveal", in[2])
            IN r.exc = "None" /\ r.value =>
                  /\ ~r.session.board.first_click
                  /\ r.session.board.mine_positions # {}
                  /\ r.session.state \in {"playing", "won"}

\* the step that makes the first reveal ends in Playing or Won
FirstRevealSteps ==
    board.first_click /\ ~board'.first_click =>
        /\ state' \in {"playing", "won"}
        /\ ~check_lose_condition(board')
        /\ moves_count' = moves_count + 1

\* C37: the first successful reveal of a session (the one that places the
\* mines) never ends in Lost, whatever flag moves, rejected reveals or chord
\* attempts came before: the state after it is Playing or Won.
FirstRevealNeverLoses == []FirstRevealCalls /\ [][FirstRevealSteps]_vars

\* before the first reveal, with flag moves made and a flag standing, a reveal
\* that wins at once and a reveal that leaves the game in play
FirstRevealNeverLosesWitness ==
    /\ board.first_click
    /\ state = "playing"
    /\ flags_used >= 2
    /\ board.flagged_count >= 1
    /\ \E in \in MoveInputs(Self, "reveal") :
          LET r == make_move(Self, in[1][1], in[1][2], "reveal", in[2])
          IN r.value /\ r.session.state = "won"
    /\ \E in \in MoveInputs(Self, "reveal") :
          LET r == make_move(Self, in[1][1], in[1][2], "reveal", in[2])
          IN r.value /\ r.session.state = "playing"

\* C38: on a board driven through reveal_cell, flag_cell and
\* expand_adjacent_cells, first_click is set exactly when mine_positions is
\* empty and exactly when revealed_count is 0: mines exist exactly when a cell
\* has been revealed.
FirstClickIffNoMinesIffNothingRevealed ==
    /\ board.first_click <=> board.mine_positions = {}
    /\ board.first_click <=> board.revealed_count = 0
    /\ board.mine_positions = {} <=> CellsIn(board, "Revealed") = {}

\* a board before its first click with a flag placed, whose first reveal
\* changes the three conditions together
FirstClickIffNoMinesIffNothingRevealedWitness ==
    /\ board.first_click
    /\ board.flagged_count >= 1
    /\ \E p \in CellsIn(board, "Hidden") :
          \E sample \in reveal_sample_choices(board, p[1], p[2]) :
              LET r == RevealedBy(board, p, sample)
              IN /\ ~r.board.first_click
                 /\ r.board.mine_positions # {}
                 /\ r.board.revealed_count >= 1

\* the board as Board.__init__ leaves it
Pristine(b) ==
    /\ \A p \in DOMAIN b.cells : b.cells[p].state = "Hidden"
    /\ b.mine_positions = {}
    /\ b.revealed_count = 0
    /\ b.flagged_count = 0

\* a New session has a pristine board and counters at 0, and every call made
\* on it leaves New or changes nothing
NewIsPristine ==
    state = "new" =>
        /\ Pristine(board)
        /\ moves_count = 0
        /\ flags_used = 0
        /\ \A action \in Actions :
              \A in \in MoveInputs(Self, action) :
                  LET s == make_move(Self, in[1][1], in[1][2], action, in[2]).session
                  IN s.state # "new" \/ SessionFields(s) = SessionFields(Self)
        /\ \A p \in InputPositions :
              SessionFields(expand_adjacent(Self, p[1], p[2]).session)
                 = SessionFields(Self)

\* a step from New that changes the board or a counter leaves New
NewLeftByMoves ==
    /\ state = "new"
    /\ board' # board \/ moves_count' # moves_count \/ flags_used' # flags_used
    => state' # "new"

\* C39: in every reachable session state, state New implies a pristine board
\* (every cell Hidden, mine_positions empty, revealed_count = flagged_count = 0)
\* and moves_count = flags_used = 0: no move takes effect without the session
\* leaving New.
NewMeansPristine == []NewIsPristine /\ [][NewLeftByMoves]_vars

\* a session back in New after a reset, where a flag move would place a flag
\* and start the game and a chord is refused
NewMeansPristineWitness ==
    /\ state = "new"
    /\ clock >= 1
    /\ \E p \in Cells :
          LET r == make_move(Self, p[1], p[2], "flag", NoSample)
          IN /\ r.value
             /\ r.session.state = "playing"
             /\ r.session.board.flagged_count = 1
             /\ r.session.flags_used = 1
             /\ expand_adjacent(Self, p[1], p[2]).exc = "ValueError"

\* flags_used counts the flag toggles, flagged_count the flags standing
FlagsUsedCoversFlags(s) ==
    /\ s.flags_used >= s.board.flagged_count
    /\ (s.flags_used - s.board.flagged_count) % 2 = 0

\* the session and the result of every flag move, chord, pause, resume and
\* reset on it
FlagsUsedCalls ==
    /\ FlagsUsedCoversFlags(Self)
    /\ \A p \in InputPositions :
          /\ FlagsUsedCoversFlags(make_move(Self, p[1], p[2], "flag", NoSample).session)
          /\ LET r == expand_adjacent(Self, p[1], p[2]).session
             IN /\ FlagsUsedCoversFlags(r)
                /\ r.board.flagged_count = board.flagged_count
                /\ r.flags_used = flags_used
    /\ FlagsUsedCoversFlags(pause_game(Self))
    /\ FlagsUsedCoversFlags(resume_game(Self))
    /\ FlagsUsedCoversFlags(reset_game(Self))

\* a step that changes flagged_count is a flag move, one step on both
\* counters, or a reset
FlaggedCountSteps ==
    board'.flagged_count # board.flagged_count =>
        \/ /\ flags_used' = flags_used + 1
           /\ Abs(board'.flagged_count - board.flagged_count) = 1
        \/ SelfNext = reset_game(Self)

\* C40: in every session state reached through make_move, expand_adjacent,
\* pause, resume and reset, flags_used >= flagged_count and their difference is
\* even: each flag move changes both by one step and no other operation
\* changes flagged_count.
FlagsUsedParity == []FlagsUsedCalls /\ [][FlaggedCountSteps]_vars

\* a game in play with cells revealed where two flag moves were made and no
\* flag stands, and where one more flag move makes the difference 2
FlagsUsedParityWitness ==
    /\ state = "playing"
    /\ flags_used = 2
    /\ board.flagged_count = 0
    /\ board.revealed_count >= 1
    /\ \E p \in CellsIn(board, "Hidden") :
          LET s == make_move(Self, p[1], p[2], "flag", NoSample).session
          IN s.flags_used = 3 /\ s.board.flagged_count = 1

====
